---- MODULE Spec2Model ----
(***************************************************************************)
(* Model of verco's asynchronous task engine: the Task trait with its      *)
(* Parallel and Serial combinators (src/worker.rs), the Worker with its    *)
(* background thread run_worker (src/worker.rs) and the Application        *)
(* facade that submits one task per Action (src/application.rs).           *)
(*                                                                         *)
(* Two threads are modelled: the caller (UI) thread, which only touches    *)
(* the channel endpoints, and the worker thread, which is cut at its       *)
(* channel operations and at each poll() of the polling pass.              *)
(***************************************************************************)
EXTENDS Integers, Sequences, FiniteSets, TLC

\* ---------------------------------------------------------------- bounds
MaxOps == 3        \* operations (send_task, cancel_all_tasks) enqueued per run
MaxRuns == 2       \* Application::run_action calls per run
MaxDelay == 1      \* polls a leaf task answers Pending before it is Ready
MaxCancelCalls == 2 \* cancel() calls made on one task in SpecUnit
MaxPolls == 3      \* poll() calls made on one task in SpecUnit
MaxResults == 3    \* results folded with action_aggregator in SpecFold

\* Action values used as task identities (application.rs, enum Action).
Ids == {"Status", "Log"}

\* ------------------------------------------------------- Option and Output
\* Option<T> is a sequence of length 0 (None) or 1 (Some(x)); Poll<T> alike:
\* <<>> is Poll::Pending and <<r>> is Poll::Ready(r).
None == <<>>
Some(x) == <<x>>

\* ActionResult(Result<String, String>): the tag and the text, the text as a
\* sequence of characters.
Ok(text) == [ok |-> TRUE, text |-> text]
Err(text) == [ok |-> FALSE, text |-> text]

\* Mutant of action_aggregator: the tag of the second result wins.
action_aggregator_second_tag(first, second) ==
    [ok |-> second.ok, text |-> first.text \o <<"\n">> \o second.text]

action_aggregator(first, second) ==
    CASE first.ok /\ second.ok     -> Ok(first.text \o <<"\n">> \o second.text)
      [] first.ok /\ ~second.ok    -> Err(first.text \o <<"\n">> \o second.text)
      [] ~first.ok /\ second.ok    -> Err(first.text \o <<"\n">> \o second.text)
      [] ~first.ok /\ ~second.ok   -> Err(first.text \o <<"\n">> \o second.text)

\* ------------------------------------------------------------------ tasks
\* A task is a record; every variant has the same fields.
\*   kind            "leaf" | "parallel" | "serial" | "action"
\*   left, res       leaf: Pending answers left before Ready(res)
\*   tasks           composite: the children, in order
\*   cached_results  Parallel: Vec<Option<T>>, Serial: Vec<T>
\*   state           ActionTask: "Waiting" | "Running" ("" for the other kinds)
\*   child           ActionTask::Running(child): the process behind the handle,
\*                   "running" | "exited" | "killed" ("none" without a handle)
\*   outcome         ActionTask: what the operating system does with the
\*                   command (see Outcomes)
\* History fields, written by PollTask and CancelTask only and never read by
\* the modelled code:
\*   polls    number of poll() calls received
\*   done     poll() has returned Ready
\*   cancels  number of cancel() calls received
\*   stale    poll() was called after Ready or after cancel()
\*   spawned  number of Command::spawn() calls made
Leaf(left, res) ==
    [kind |-> "leaf", left |-> left, res |-> res, tasks |-> <<>>,
     cached_results |-> <<>>, polls |-> 0, done |-> FALSE, cancels |-> 0,
     stale |-> FALSE, state |-> "", child |-> "none", outcome |-> "", spawned |-> 0]

parallel(tasks) ==
    [kind |-> "parallel", left |-> 0, res |-> Ok(<<>>), tasks |-> tasks,
     cached_results |-> [i \in 1..Len(tasks) |-> None],
     polls |-> 0, done |-> FALSE, cancels |-> 0, stale |-> FALSE,
     state |-> "", child |-> "none", outcome |-> "", spawned |-> 0]

serial(tasks) ==
    [kind |-> "serial", left |-> 0, res |-> Ok(<<>>), tasks |-> tasks,
     cached_results |-> <<>>,
     polls |-> 0, done |-> FALSE, cancels |-> 0, stale |-> FALSE,
     state |-> "", child |-> "none", outcome |-> "", spawned |-> 0]

\* What the operating system does with an ActionTask's command:
\*   spawn_error       Command::spawn fails
\*   wait_error        the process is spawned, waiting for it fails
\*   success, failure  it exits with / without success, its output valid UTF-8
\*   success_bad_utf8, failure_bad_utf8
\*                     the same, the captured stream not valid UTF-8
Outcomes == {"spawn_error", "wait_error", "success", "failure",
             "success_bad_utf8", "failure_bad_utf8"}

\* The text a process writes to its stdout and stderr, and the text of an
\* io::Error (e.to_string()).
Stdout == <<"o">>
Stderr == <<"e">>
Diagnostic == <<"i", "o">>

\* enum ActionTask { Waiting(Command), Running(Child) }
ActionTask(state, child, outcome) ==
    [kind |-> "action", left |-> 0, res |-> Ok(<<>>), tasks |-> <<>>,
     cached_results |-> <<>>, polls |-> 0, done |-> FALSE, cancels |-> 0,
     stale |-> FALSE, state |-> state, child |-> child, outcome |-> outcome,
     spawned |-> 0]

Waiting(outcome) == ActionTask("Waiting", "none", outcome)
Running(child, outcome) == ActionTask("Running", child, outcome)

Min(a, b) == IF a < b THEN a ELSE b

\* Mutant of FoldResults: the aggregator is called with its arguments swapped.
RECURSIVE FoldResultsSwapped(_, _)
FoldResultsSwapped(aggregated, rest) ==
    IF rest = <<>> THEN aggregated
    ELSE FoldResultsSwapped(action_aggregator(Head(rest), aggregated), Tail(rest))

\* for result in iter { aggregator(&mut aggregated, &result) }
RECURSIVE FoldResults(_, _)
FoldResults(aggregated, rest) ==
    IF rest = <<>> THEN aggregated
    ELSE FoldResults(action_aggregator(aggregated, Head(rest)), Tail(rest))

\* What one poll() call yields: the task after the call, the value returned
\* and whether the call panicked.
PollReturn(task, ret, panic) == [task |-> task, ret |-> ret, panic |-> panic]

RECURSIVE PollTask(_)
RECURSIVE CancelTask(_)

\* A leaf supplied by a collaborator: Pending `left` times, then Ready(res).
LeafPoll(t) ==
    IF t.left = 0 THEN PollReturn(t, Some(t.res), FALSE)
    ELSE PollReturn([t EXCEPT !.left = t.left - 1], None, FALSE)

\* get_process_output(child), called once try_wait has reported an exit:
\* child.wait(), then stdout or stderr is read to a String; a read that is
\* not valid UTF-8 is an Err of read_to_string. A killed process has no
\* success status.
get_process_output(t) ==
    CASE t.outcome = "wait_error" -> Err(Diagnostic)
      [] t.child = "killed" ->
            IF t.outcome \in {"success_bad_utf8", "failure_bad_utf8"}
            THEN Err(Diagnostic) ELSE Err(Stderr)
      [] t.outcome = "success" -> Ok(Stdout)
      [] t.outcome = "failure" -> Err(Stderr)
      [] OTHER -> Err(Diagnostic)

\* Mutant of ActionTaskPoll: a Waiting task whose command spawns becomes
\* Running and returns Pending without waiting for the process.
ActionTaskPollDetached(t) ==
    IF t.state = "Waiting"
    THEN LET s == [t EXCEPT !.spawned = t.spawned + 1]
         IN  IF t.outcome = "spawn_error"
             THEN PollReturn(s, Some(Err(Diagnostic)), FALSE)
             ELSE PollReturn([s EXCEPT !.state = "Running", !.child = "running"],
                             None, FALSE)
    ELSE IF t.child = "running" THEN PollReturn(t, None, FALSE)
         ELSE PollReturn(t, Some(get_process_output(t)), FALSE)

\* ActionTask::poll. Waiting: the command is spawned and wait_with_output
\* blocks until the process has exited; every arm of that match returns, so
\* the task is left Waiting and the lines that would make it Running are
\* never reached. String::from_utf8(..).unwrap() panics on bytes that are not
\* UTF-8. Running: try_wait, without blocking.
ActionTaskPoll(t) ==
    IF t.state = "Waiting"
    THEN LET s == [t EXCEPT !.spawned = t.spawned + 1]
         IN  CASE t.outcome = "spawn_error" -> PollReturn(s, Some(Err(Diagnostic)), FALSE)
               [] t.outcome = "wait_error"  -> PollReturn(s, Some(Err(Diagnostic)), FALSE)
               [] t.outcome = "success"     -> PollReturn(s, Some(Ok(Stdout)), FALSE)
               [] t.outcome = "failure"     -> PollReturn(s, Some(Err(Stderr)), FALSE)
               [] OTHER                     -> PollReturn(s, None, TRUE)
    ELSE IF t.child = "running" THEN PollReturn(t, None, FALSE)
         ELSE PollReturn(t, Some(get_process_output(t)), FALSE)

\* Mutant of ActionTaskCancel: a handle whose process is no longer running is
\* given up and the task goes back to Waiting.
ActionTaskCancelResets(t) ==
    IF t.state = "Waiting" THEN t
    ELSE IF t.child = "running" THEN [t EXCEPT !.child = "killed"]
    ELSE [t EXCEPT !.state = "Waiting", !.child = "none"]

\* ActionTask::cancel: nothing on Waiting; child.kill() on Running, its
\* result ignored (killing a process that has exited is an error).
ActionTaskCancel(t) ==
    IF t.state = "Waiting" THEN t
    ELSE IF t.child = "running" THEN [t EXCEPT !.child = "killed"]
    ELSE t

\* ParallelTasks::poll
ParallelTasksPoll(t) ==
    LET n == Min(Len(t.tasks), Len(t.cached_results))
        polled_child(i) == i <= n /\ t.cached_results[i] = None
        all_ready == \A i \in 1..n : t.cached_results[i] # None
        sub == [i \in 1..Len(t.tasks) |->
                   IF polled_child(i) THEN PollTask(t.tasks[i])
                   ELSE PollReturn(t.tasks[i], None, FALSE)]
        tasks == [i \in 1..Len(t.tasks) |-> sub[i].task]
        cached == [i \in 1..Len(t.cached_results) |->
                      IF polled_child(i) THEN sub[i].ret
                      ELSE t.cached_results[i]]
        child_panic == \E i \in 1..n : sub[i].panic
        polled == [t EXCEPT !.tasks = tasks, !.cached_results = cached]
    IN  IF child_panic THEN PollReturn(polled, None, TRUE)
        ELSE IF all_ready
        THEN IF Len(cached) = 0
             THEN PollReturn(polled, None, TRUE)
             ELSE PollReturn(
                    [polled EXCEPT !.cached_results = <<>>],
                    Some(FoldResults(cached[1][1],
                                     [i \in 1..(Len(cached) - 1) |-> cached[i + 1][1]])),
                    FALSE)
        ELSE PollReturn(polled, None, FALSE)

\* Mutant of SerialIndex: the children are taken from the back of the list.
SerialIndexFromBack(t) == Len(t.tasks) - Len(t.cached_results)

\* SerialTasks::poll, the child polled: self.tasks[self.cached_results.len()]
\* (indices from 1 here).
SerialIndex(t) == Len(t.cached_results) + 1

\* Mutant of SerialTasksPoll: an index past the last child is answered with
\* Pending.
SerialTasksPollChecked(t) ==
    LET index == SerialIndex(t)
    IN  IF index > Len(t.tasks) THEN PollReturn(t, None, FALSE)
        ELSE
        LET sub == PollTask(t.tasks[index])
            tasks == [t.tasks EXCEPT ![index] = sub.task]
            polled == [t EXCEPT !.tasks = tasks]
        IN  IF sub.panic THEN PollReturn(polled, None, TRUE)
            ELSE IF sub.ret = None THEN PollReturn(polled, None, FALSE)
            ELSE
            LET cached == Append(t.cached_results, sub.ret[1])
            IN  IF Len(cached) = Len(t.tasks)
                THEN PollReturn([polled EXCEPT !.cached_results = <<>>],
                                Some(FoldResults(Head(cached), Tail(cached))),
                                FALSE)
                ELSE PollReturn([polled EXCEPT !.cached_results = cached],
                                None, FALSE)

\* SerialTasks::poll
SerialTasksPoll(t) ==
    LET index == SerialIndex(t)
    IN  IF index > Len(t.tasks) THEN PollReturn(t, None, TRUE)
        ELSE
        LET sub == PollTask(t.tasks[index])
            tasks == [t.tasks EXCEPT ![index] = sub.task]
            polled == [t EXCEPT !.tasks = tasks]
        IN  IF sub.panic THEN PollReturn(polled, None, TRUE)
            ELSE IF sub.ret = None THEN PollReturn(polled, None, FALSE)
            ELSE
            LET cached == Append(t.cached_results, sub.ret[1])
            IN  IF Len(cached) = Len(t.tasks)
                THEN PollReturn([polled EXCEPT !.cached_results = <<>>],
                                Some(FoldResults(Head(cached), Tail(cached))),
                                FALSE)
                ELSE PollReturn([polled EXCEPT !.cached_results = cached],
                                None, FALSE)

\* Task::poll, dispatched on the variant; the history fields are kept here.
PollTask(t) ==
    LET r == CASE t.kind = "leaf"     -> LeafPoll(t)
               [] t.kind = "parallel" -> ParallelTasksPoll(t)
               [] t.kind = "serial"   -> SerialTasksPoll(t)
               [] t.kind = "action"   -> ActionTaskPoll(t)
    IN  [r EXCEPT !.task.polls = t.polls + 1,
                  !.task.done = t.done \/ r.ret # None,
                  !.task.stale = t.stale \/ t.done \/ t.cancels > 0]

\* ParallelTasks::cancel
ParallelTasksCancel(t) ==
    LET n == Min(Len(t.tasks), Len(t.cached_results))
    IN  [t EXCEPT !.tasks = [i \in 1..Len(t.tasks) |->
            IF i <= n /\ t.cached_results[i] = None
            THEN CancelTask(t.tasks[i]) ELSE t.tasks[i]]]

\* Mutant of SerialTasksCancel: cancel() is forwarded to every child, the
\* completed ones included.
SerialTasksCancelAll(t) ==
    [t EXCEPT !.tasks = [i \in 1..Len(t.tasks) |-> CancelTask(t.tasks[i])]]

\* SerialTasks::cancel
SerialTasksCancel(t) ==
    [t EXCEPT !.tasks = [i \in 1..Len(t.tasks) |->
        IF i > Len(t.cached_results)
        THEN CancelTask(t.tasks[i]) ELSE t.tasks[i]]]

\* Task::cancel, dispatched on the variant.
CancelTask(t) ==
    LET c == CASE t.kind = "leaf"     -> t
               [] t.kind = "parallel" -> ParallelTasksCancel(t)
               [] t.kind = "serial"   -> SerialTasksCancel(t)
               [] t.kind = "action"   -> ActionTaskCancel(t)
    IN  [c EXCEPT !.cancels = t.cancels + 1]


\* ------------------------------------------------------------------ state
VARIABLES
    pending_tasks,      \* run_worker: Vec<(Id, Box<dyn Task>)>, the task table
    task_count,         \* Worker::task_count, Arc<Mutex<usize>>
    operation_channel,  \* channel() of TaskOperation, caller -> worker
    result_channel,     \* channel() of (Id, T), worker -> caller
    stop_channel,       \* sync_channel(0) of (), caller -> worker
    worker,             \* the worker thread: its place in run_worker
    caller,             \* the caller thread: its place in the Worker/Application API and
                        \* what its last run_action returned
    results,            \* Application::results, HashMap<Action, ActionResult>
    \* history variables, never read by the modelled code
    sent,               \* every operation enqueued so far, in order
    applied,            \* every operation the worker has applied, in order
    pushed,             \* every pair sent on the result channel, in order
    drained,            \* every pair receive_result has returned, in order
    polled,             \* the last poll() call the worker made
    cancelled,          \* the table entries the worker has called cancel() on
    \* SpecUnit only
    unit,               \* a task polled and cancelled directly, outside a Worker
    fold                \* a fold of results with action_aggregator, outside a task

vars == <<pending_tasks, task_count, operation_channel, result_channel,
          stop_channel, worker, caller, results,
          sent, applied, pushed, drained, polled, cancelled, unit, fold>>

worker_vars == <<pending_tasks, task_count, worker, applied, pushed, polled, cancelled>>
app_vars == <<results>>

\* TaskOperation::Add(id, task) / TaskOperation::Remove(id); tid numbers the
\* submitted tasks in submission order (history only).
Add(id, tid, task) == [op |-> "Add", id |-> id, tid |-> tid, task |-> Some(task)]
Remove(id) == [op |-> "Remove", id |-> id, tid |-> 0, task |-> None]
Stripped(op) == [op |-> op.op, id |-> op.id, tid |-> op.tid]

NumSent(kind) == Cardinality({k \in 1..Len(sent) : sent[k].op = kind})

\* The tasks a caller submits to the dispatcher in Spec and SpecApp.
DispatchTasks ==
    {Leaf(d, Ok(<<"a">>)) : d \in {0, MaxDelay}}
    \cup {parallel(<<Leaf(0, Ok(<<"a">>)), Leaf(MaxDelay, Ok(<<"b">>))>>),
          serial(<<Leaf(MaxDelay, Ok(<<"a">>)), Leaf(0, Err(<<"b">>))>>)}

\* The values a leaf task returns.
Outputs == {Ok(<<"a">>), Ok(<<"b">>), Err(<<"c">>)}

\* The tasks of SpecTask: every leaf, every Parallel and Serial of two or three
\* leaves, and composites of composites.
Leaves == {Leaf(d, r) : d \in 0..MaxDelay, r \in Outputs}
FewLeaves == {Leaf(0, Ok(<<"a">>)), Leaf(MaxDelay, Ok(<<"b">>))}
TaskShapes ==
    Leaves
    \cup {parallel(<<x, y>>) : x \in Leaves, y \in Leaves}
    \cup {serial(<<x, y>>) : x \in Leaves, y \in Leaves}
    \cup {parallel(<<x, y, z>>) : x \in Leaves, y \in FewLeaves, z \in Leaves}
    \cup {serial(<<x, y, z>>) : x \in Leaves, y \in FewLeaves, z \in Leaves}
    \cup {parallel(<<serial(<<x, y>>), z>>) : x \in FewLeaves, y \in FewLeaves, z \in Leaves}
    \cup {serial(<<z, parallel(<<x, y>>)>>) : x \in FewLeaves, y \in FewLeaves, z \in Leaves}

NoPoll == [id |-> "", tid |-> 0, before |-> None, after |-> None, ret |-> None]

\* unit: the task, the task before the last call, the call ("new" before any
\* call), what poll() returned and whether the call panicked.
NoUnit == [task |-> None, prev |-> None, call |-> "new", ret |-> None, panic |-> FALSE]

\* fold: the results to fold, the value aggregated so far (None before the
\* first is taken) and the number of results used.
NoFold == [inputs |-> <<>>, aggregated |-> None, used |-> 0]

Init ==
    /\ pending_tasks = <<>>
    /\ task_count = 0
    /\ operation_channel = <<>>
    /\ result_channel = <<>>
    /\ stop_channel = "empty"
    /\ worker = [pc |-> "check", i |-> 0]
    /\ caller = [pc |-> "idle", id |-> "", task |-> None, ret |-> None]
    /\ results = [a \in Ids |-> None]
    /\ sent = <<>>
    /\ applied = <<>>
    /\ pushed = <<>>
    /\ drained = <<>>
    /\ polled = NoPoll
    /\ cancelled = {}
    /\ unit = NoUnit
    /\ fold = NoFold

\* --------------------------------------------------------- caller: Worker
\* operation_sender.send(op): the operation joins the end of the queue.
SendOperation(op) ==
    /\ operation_channel' = Append(operation_channel, op)
    /\ sent' = Append(sent, Stripped(op))

\* Worker::send_task
SendTask(id, task) ==
    /\ caller.pc = "idle"
    /\ worker.pc \notin {"exited", "panicked"}
    /\ Len(sent) < MaxOps
    /\ SendOperation(Add(id, NumSent("Add") + 1, task))
    /\ UNCHANGED <<worker_vars, app_vars, result_channel, stop_channel, caller, drained>>
    /\ UNCHANGED <<unit, fold>>

\* Worker::cancel_all_tasks(id)
CancelAllTasks(id) ==
    /\ caller.pc = "idle"
    /\ worker.pc \notin {"exited", "panicked"}
    /\ Len(sent) < MaxOps
    /\ SendOperation(Remove(id))
    /\ UNCHANGED <<worker_vars, app_vars, result_channel, stop_channel, caller, drained>>
    /\ UNCHANGED <<unit, fold>>

\* result_receiver.try_recv(): None on an empty channel, else the oldest pair.
TryRecvResult ==
    IF result_channel = <<>> THEN [ret |-> None, rest |-> result_channel]
    ELSE [ret |-> Some(Head(result_channel)), rest |-> Tail(result_channel)]

\* Mutant of ReceiveResult: result_receiver.recv(), which waits for a pair.
ReceiveResultBlocks ==
    /\ caller.pc = "idle"
    /\ worker.pc \notin {"exited", "panicked"}
    /\ result_channel # <<>>
    /\ result_channel' = Tail(result_channel)
    /\ drained' = Append(drained, Head(result_channel))
    /\ UNCHANGED <<worker_vars, app_vars, operation_channel, stop_channel, caller, sent>>
    /\ UNCHANGED <<unit, fold>>

\* Worker::receive_result
ReceiveResult ==
    /\ caller.pc = "idle"
    /\ worker.pc \notin {"exited", "panicked"}
    /\ result_channel' = TryRecvResult.rest
    /\ drained' = drained \o TryRecvResult.ret
    /\ UNCHANGED <<worker_vars, app_vars, operation_channel, stop_channel, caller, sent>>
    /\ UNCHANGED <<unit, fold>>

\* Worker::stop, first half: stop_sender.send(()) on the rendezvous channel.
Stop ==
    /\ caller.pc = "idle"
    /\ worker.pc \notin {"exited", "panicked"}
    /\ stop_channel = "empty"
    /\ stop_channel' = "sending"
    /\ caller' = [caller EXCEPT !.pc = "stopping"]
    /\ UNCHANGED <<worker_vars, app_vars, operation_channel, result_channel, sent, drained>>
    /\ UNCHANGED <<unit, fold>>

\* Mutant of StopJoin: stop() returns without joining the worker thread.
StopWithoutJoin ==
    /\ caller.pc = "stopping"
    /\ caller' = [caller EXCEPT !.pc = "stopped"]
    /\ UNCHANGED <<worker_vars, app_vars, operation_channel, result_channel,
                   stop_channel, sent, drained>>
    /\ UNCHANGED <<unit, fold>>

\* Worker::stop, second half: worker_thread.join() returns.
StopJoin ==
    /\ caller.pc = "stopping"
    /\ worker.pc = "exited"
    /\ caller' = [caller EXCEPT !.pc = "stopped"]
    /\ UNCHANGED <<worker_vars, app_vars, operation_channel, result_channel,
                   stop_channel, sent, drained>>
    /\ UNCHANGED <<unit, fold>>

\* ---------------------------------------------------- caller: Application
\* Worker::cancel_tasks_with_id(action), called by run_action; worker.rs holds
\* no method of that name, and the call is taken to enqueue the cancel-by-id
\* operation, TaskOperation::Remove(action).
CancelTasksWithId(action) == SendOperation(Remove(action))

\* Application::run_action, up to its first channel send: the cancel-by-id.
RunAction(action, task) ==
    /\ caller.pc = "idle"
    /\ worker.pc \notin {"exited", "panicked"}
    /\ NumSent("Add") < MaxRuns
    /\ CancelTasksWithId(action)
    /\ caller' = [pc |-> "run_action", id |-> action, task |-> Some(task),
                  ret |-> None]
    /\ UNCHANGED <<worker_vars, app_vars, result_channel, stop_channel, drained>>
    /\ UNCHANGED <<unit, fold>>

\* Application::run_action, the value returned: match self.results.get(&action),
\* the cached result or ActionResult(Ok(String::new())).
RunActionReturn(action) ==
    IF results[action] = None THEN Ok(<<>>) ELSE results[action][1]

\* Application::run_action, the rest: worker.send_task(action, task); the
\* cached result is read and returned, the cache is left as it is.
RunActionSend ==
    /\ caller.pc = "run_action"
    /\ SendOperation(Add(caller.id, NumSent("Add") + 1, caller.task[1]))
    /\ caller' = [pc |-> "idle", id |-> "", task |-> None,
                  ret |-> Some([action |-> caller.id,
                                result |-> RunActionReturn(caller.id)])]
    /\ UNCHANGED <<worker_vars, app_vars, result_channel, stop_channel, drained>>
    /\ UNCHANGED <<unit, fold>>

\* Mutant of PollActionResult: the pair received is returned and not stored.
PollActionResultForgets ==
    /\ caller.pc = "idle"
    /\ worker.pc \notin {"exited", "panicked"}
    /\ result_channel' = TryRecvResult.rest
    /\ drained' = drained \o TryRecvResult.ret
    /\ results' = results
    /\ UNCHANGED <<worker_vars, operation_channel, stop_channel, caller, sent>>
    /\ UNCHANGED <<unit, fold>>

\* Application::poll_action_result: receive_result, and a pair received is
\* inserted into the cache.
PollActionResult ==
    /\ caller.pc = "idle"
    /\ worker.pc \notin {"exited", "panicked"}
    /\ result_channel' = TryRecvResult.rest
    /\ drained' = drained \o TryRecvResult.ret
    /\ results' = IF TryRecvResult.ret = None THEN results
                  ELSE [results EXCEPT ![TryRecvResult.ret[1].id] =
                                           Some(TryRecvResult.ret[1].result)]
    /\ UNCHANGED <<worker_vars, operation_channel, stop_channel, caller, sent>>
    /\ UNCHANGED <<unit, fold>>

\* Mutant of SwapRemove: the last element is removed, whatever i.
SwapRemovePop(v, i) == SubSeq(v, 1, Len(v) - 1)

\* ---------------------------------------------------------- worker thread
\* Vec::swap_remove(i): the last element takes the place of element i.
SwapRemove(v, i) ==
    IF i = Len(v) THEN SubSeq(v, 1, Len(v) - 1)
    ELSE [SubSeq(v, 1, Len(v) - 1) EXCEPT ![i] = v[Len(v)]]

\* Mutant of RemoveTasks: the identity test is inverted, so the entries under
\* id are the ones that stay.
RECURSIVE RemoveOtherTasks(_, _, _, _)
RemoveOtherTasks(tasks, id, i, dropped) ==
    IF i = 0 THEN [tasks |-> tasks, dropped |-> dropped]
    ELSE IF tasks[i].id # id
    THEN RemoveOtherTasks(SwapRemove(tasks, i), id, i - 1,
                     dropped \cup {[tasks[i] EXCEPT !.task = CancelTask(tasks[i].task)]})
    ELSE RemoveOtherTasks(tasks, id, i - 1, dropped)

\* Mutant of RemoveTasks: cancel() is called on the entries under id, and the
\* entries stay in the table.
RemoveTasksCancelOnly(tasks, id, i, dropped) ==
    [tasks |-> [k \in DOMAIN tasks |->
                   IF k <= i /\ tasks[k].id = id
                   THEN [tasks[k] EXCEPT !.task = CancelTask(tasks[k].task)]
                   ELSE tasks[k]],
     dropped |-> dropped]

\* run_worker, TaskOperation::Remove(id): for i in (0..len).rev(), swap_remove
\* and cancel every entry stored under id. Yields the table and the cancelled
\* entries.
RECURSIVE RemoveTasks(_, _, _, _)
RemoveTasks(tasks, id, i, dropped) ==
    IF i = 0 THEN [tasks |-> tasks, dropped |-> dropped]
    ELSE IF tasks[i].id = id
    THEN RemoveTasks(SwapRemove(tasks, i), id, i - 1,
                     dropped \cup {[tasks[i] EXCEPT !.task = CancelTask(tasks[i].task)]})
    ELSE RemoveTasks(tasks, id, i - 1, dropped)

\* Mutant of TryRecvOperation: the newest operation is received first.
TryRecvNewestOperation(channel) ==
    [op |-> channel[Len(channel)], rest |-> SubSeq(channel, 1, Len(channel) - 1)]

\* operation_receiver.try_recv() on a non-empty queue: the oldest operation.
TryRecvOperation(channel) == [op |-> Head(channel), rest |-> Tail(channel)]

\* run_worker, the match on the received operation: the table after it and
\* the entries cancel() was called on.
ApplyOperation(tasks, op) ==
    IF op.op = "Add"
    THEN [tasks |-> Append(tasks, [id |-> op.id, tid |-> op.tid, task |-> op.task[1]]),
          dropped |-> {}]
    ELSE RemoveTasks(tasks, op.id, Len(tasks), {})

\* Mutant of PollEntry: a Ready entry sends its pair and stays in the table.
PollEntryKeepsReady(tasks, i) ==
    LET entry == tasks[i]
        r == PollTask(entry.task)
    IN  [tasks |-> IF r.panic THEN <<>> ELSE [tasks EXCEPT ![i].task = r.task],
         out |-> IF ~r.panic /\ r.ret # None
                 THEN <<[id |-> entry.id, tid |-> entry.tid, result |-> r.ret[1]]>>
                 ELSE <<>>,
         panic |-> r.panic,
         polled |-> [id |-> entry.id, tid |-> entry.tid,
                     before |-> Some(entry.task), after |-> Some(r.task),
                     ret |-> r.ret]]

\* Mutant of PollEntry: a Ready entry is removed and its pair is not sent.
PollEntrySendsNothing(tasks, i) ==
    LET entry == tasks[i]
        r == PollTask(entry.task)
    IN  [tasks |-> IF r.panic THEN <<>>
                   ELSE IF r.ret # None THEN SwapRemove(tasks, i)
                   ELSE [tasks EXCEPT ![i].task = r.task],
         out |-> <<>>,
         panic |-> r.panic,
         polled |-> [id |-> entry.id, tid |-> entry.tid,
                     before |-> Some(entry.task), after |-> Some(r.task),
                     ret |-> r.ret]]

\* run_worker, the body of the polling loop for index i: poll the entry; a
\* Ready entry is swap_removed and its pair sent on the result channel.
PollEntry(tasks, i) ==
    LET entry == tasks[i]
        r == PollTask(entry.task)
    IN  [tasks |-> IF r.panic THEN <<>>
                   ELSE IF r.ret # None THEN SwapRemove(tasks, i)
                   ELSE [tasks EXCEPT ![i].task = r.task],
         out |-> IF ~r.panic /\ r.ret # None
                 THEN <<[id |-> entry.id, tid |-> entry.tid, result |-> r.ret[1]]>>
                 ELSE <<>>,
         panic |-> r.panic,
         polled |-> [id |-> entry.id, tid |-> entry.tid,
                     before |-> Some(entry.task), after |-> Some(r.task),
                     ret |-> r.ret]]

\* Mutant of WorkerCheck: on the stop request the tasks in the table are
\* cancelled before the loop is left.
WorkerCheckCancelsOnStop ==
    /\ worker.pc = "check"
    /\ IF stop_channel = "sending"
       THEN /\ stop_channel' = "taken"
            /\ worker' = [pc |-> "exited", i |-> 0]
            /\ pending_tasks' = <<>>
            /\ operation_channel' = <<>>
            /\ cancelled' = cancelled \cup
                  {[e EXCEPT !.task = CancelTask(e.task)] :
                      e \in {pending_tasks[k] : k \in 1..Len(pending_tasks)}}
       ELSE /\ worker' = [pc |-> "operation", i |-> 0]
            /\ UNCHANGED <<stop_channel, pending_tasks, operation_channel, cancelled>>
    /\ UNCHANGED <<task_count, result_channel, caller, results, sent, applied,
                   pushed, drained, polled>>
    /\ UNCHANGED <<unit, fold>>

\* run_worker, the loop condition: stop_receiver.try_recv().
WorkerCheck ==
    /\ worker.pc = "check"
    /\ IF stop_channel = "sending"
       THEN /\ stop_channel' = "taken"
            /\ worker' = [pc |-> "exited", i |-> 0]
            /\ pending_tasks' = <<>>
            /\ operation_channel' = <<>>
       ELSE /\ worker' = [pc |-> "operation", i |-> 0]
            /\ UNCHANGED <<stop_channel, pending_tasks, operation_channel>>
    /\ UNCHANGED <<task_count, result_channel, caller, results, sent, applied,
                   pushed, drained, polled, cancelled>>
    /\ UNCHANGED <<unit, fold>>

\* run_worker: operation_receiver.try_recv() and the operation it yields; one
\* operation at most is received per loop iteration.
WorkerOperation ==
    /\ worker.pc = "operation"
    /\ IF operation_channel = <<>>
       THEN UNCHANGED <<operation_channel, pending_tasks, task_count, applied, cancelled>>
       ELSE LET recv == TryRecvOperation(operation_channel)
                r == ApplyOperation(pending_tasks, recv.op)
            IN  /\ operation_channel' = recv.rest
                /\ applied' = Append(applied, Stripped(recv.op))
                /\ pending_tasks' = r.tasks
                /\ cancelled' = cancelled \cup r.dropped
                /\ task_count' = IF recv.op.op = "Remove" THEN Len(r.tasks)
                                 ELSE task_count
    /\ worker' = [pc |-> "poll", i |-> Len(pending_tasks')]
    /\ UNCHANGED <<result_channel, stop_channel, caller, results, sent, pushed,
                   drained, polled>>
    /\ UNCHANGED <<unit, fold>>

\* Mutant of WorkerPoll: after a Ready entry is removed the scan steps over
\* one more index.
WorkerPollSkips ==
    /\ worker.pc = "poll"
    /\ worker.i >= 1
    /\ LET r == PollEntry(pending_tasks, worker.i)
       IN  /\ polled' = r.polled
           /\ pending_tasks' = r.tasks
           /\ result_channel' = result_channel \o r.out
           /\ pushed' = pushed \o r.out
           /\ worker' = IF r.panic THEN [pc |-> "panicked", i |-> 0]
                        ELSE IF r.out # <<>> /\ worker.i >= 2
                        THEN [worker EXCEPT !.i = worker.i - 2]
                        ELSE [worker EXCEPT !.i = worker.i - 1]
    /\ UNCHANGED <<task_count, operation_channel, stop_channel, caller, results,
                   sent, applied, drained, cancelled>>
    /\ UNCHANGED <<unit, fold>>

\* run_worker, one turn of `for i in (0..pending_tasks.len()).rev()`.
WorkerPoll ==
    /\ worker.pc = "poll"
    /\ worker.i >= 1
    /\ LET r == PollEntry(pending_tasks, worker.i)
       IN  /\ polled' = r.polled
           /\ pending_tasks' = r.tasks
           /\ result_channel' = result_channel \o r.out
           /\ pushed' = pushed \o r.out
           /\ worker' = IF r.panic THEN [pc |-> "panicked", i |-> 0]
                        ELSE [worker EXCEPT !.i = worker.i - 1]
    /\ UNCHANGED <<task_count, operation_channel, stop_channel, caller, results,
                   sent, applied, drained, cancelled>>
    /\ UNCHANGED <<unit, fold>>

\* Mutant of WorkerSleep: the count is not stored after the polling pass.
WorkerSleepKeepsCount ==
    /\ worker.pc = "poll"
    /\ worker.i = 0
    /\ task_count' = task_count
    /\ worker' = [pc |-> "check", i |-> 0]
    /\ polled' = NoPoll
    /\ UNCHANGED <<pending_tasks, operation_channel, result_channel, stop_channel,
                   caller, results, sent, applied, pushed, drained, cancelled>>
    /\ UNCHANGED <<unit, fold>>

\* run_worker, after the polling pass: the count is stored and the thread
\* sleeps until the next iteration.
WorkerSleep ==
    /\ worker.pc = "poll"
    /\ worker.i = 0
    /\ task_count' = Len(pending_tasks)
    /\ worker' = [pc |-> "check", i |-> 0]
    /\ polled' = NoPoll
    /\ UNCHANGED <<pending_tasks, operation_channel, result_channel, stop_channel,
                   caller, results, sent, applied, pushed, drained, cancelled>>
    /\ UNCHANGED <<unit, fold>>

WorkerNext ==
    \/ WorkerCheck
    \/ WorkerOperation
    \/ WorkerPoll
    \/ WorkerSleep

\* ------------------------------------------------------ the specifications
\* Spec: the dispatcher driven through the Worker API.
Next ==
    \/ \E id \in Ids, task \in DispatchTasks : SendTask(id, task)
    \/ \E id \in Ids : CancelAllTasks(id)
    \/ ReceiveResult
    \/ WorkerCheck
    \/ WorkerOperation
    \/ WorkerPoll
    \/ WorkerSleep

Spec == Init /\ [][Next]_vars

\* SpecApp: the dispatcher driven through the Application facade only.
NextApp ==
    \/ \E action \in Ids, task \in DispatchTasks : RunAction(action, task)
    \/ RunActionSend
    \/ PollActionResult
    \/ WorkerCheck
    \/ WorkerOperation
    \/ WorkerPoll
    \/ WorkerSleep

SpecApp == Init /\ [][NextApp]_vars

\* SpecTask: one task of TaskShapes has been submitted; the worker polls it,
\* and the caller may cancel its identity and drain.
InitTask ==
    /\ pending_tasks = <<>>
    /\ task_count = 0
    /\ \E task \in TaskShapes :
          /\ operation_channel = <<Add("Status", 1, task)>>
          /\ sent = <<Stripped(Add("Status", 1, task))>>
    /\ result_channel = <<>>
    /\ stop_channel = "empty"
    /\ worker = [pc |-> "check", i |-> 0]
    /\ caller = [pc |-> "idle", id |-> "", task |-> None, ret |-> None]
    /\ results = [a \in Ids |-> None]
    /\ applied = <<>>
    /\ pushed = <<>>
    /\ drained = <<>>
    /\ polled = NoPoll
    /\ cancelled = {}
    /\ unit = NoUnit
    /\ fold = NoFold

NextTask ==
    \/ \E id \in Ids : CancelAllTasks(id)
    \/ ReceiveResult
    \/ WorkerCheck
    \/ WorkerOperation
    \/ WorkerPoll
    \/ WorkerSleep

SpecTask == InitTask /\ [][NextTask]_vars

\* SpecUnit: one task, in any state its type allows, is polled and cancelled
\* directly through the Task trait, and the processes of Running ActionTasks
\* exit on their own.
ActionTasks ==
    {Waiting(o) : o \in Outcomes}
    \cup {Running(c, o) : c \in {"running", "exited", "killed"},
                          o \in Outcomes \ {"spawn_error"}}
FewTasks == {Waiting("success"), Running("running", "success"),
             Running("exited", "failure"), Leaf(MaxDelay, Ok(<<"a">>))}
UnitTasks ==
    ActionTasks
    \cup {Leaf(d, Ok(<<"a">>)) : d \in 0..MaxDelay}
    \cup {parallel(<<x, y>>) : x \in FewTasks, y \in FewTasks}
    \cup {serial(<<x, y>>) : x \in FewTasks, y \in FewTasks}
    \cup {parallel(<<x, serial(<<y, x>>)>>) : x \in FewTasks, y \in FewTasks}

InitUnit ==
    /\ pending_tasks = <<>>
    /\ task_count = 0
    /\ operation_channel = <<>>
    /\ result_channel = <<>>
    /\ stop_channel = "empty"
    /\ worker = [pc |-> "check", i |-> 0]
    /\ caller = [pc |-> "idle", id |-> "", task |-> None, ret |-> None]
    /\ results = [a \in Ids |-> None]
    /\ sent = <<>>
    /\ applied = <<>>
    /\ pushed = <<>>
    /\ drained = <<>>
    /\ polled = NoPoll
    /\ cancelled = {}
    /\ \E task \in UnitTasks : unit = [NoUnit EXCEPT !.task = Some(task)]
    /\ fold = NoFold

unit_frame ==
    UNCHANGED <<pending_tasks, task_count, operation_channel, result_channel,
                stop_channel, worker, caller, results, sent, applied, pushed,
                drained, polled, cancelled, fold>>

\* Task::poll called by the task's owner, who stops polling after Ready and
\* after cancel().
UnitPoll ==
    /\ ~unit.panic
    /\ ~unit.task[1].done
    /\ unit.task[1].cancels = 0
    /\ unit.task[1].polls < MaxPolls
    /\ LET r == PollTask(unit.task[1])
       IN  unit' = [task |-> Some(r.task), prev |-> unit.task, call |-> "poll",
                    ret |-> r.ret, panic |-> r.panic]
    /\ unit_frame

\* Task::cancel called by the task's owner, in any state of the task.
UnitCancel ==
    /\ ~unit.panic
    /\ unit.task[1].cancels < MaxCancelCalls
    /\ unit' = [task |-> Some(CancelTask(unit.task[1])), prev |-> unit.task,
                call |-> "cancel", ret |-> None, panic |-> FALSE]
    /\ unit_frame

\* The processes behind the Running handles of t exit.
RECURSIVE ExitChildren(_)
ExitChildren(t) ==
    [t EXCEPT !.child = IF t.child = "running" THEN "exited" ELSE t.child,
              !.tasks = [i \in DOMAIN t.tasks |-> ExitChildren(t.tasks[i])]]

\* The operating system: running processes come to their end.
UnitChildExit ==
    /\ ExitChildren(unit.task[1]) # unit.task[1]
    /\ unit' = [unit EXCEPT !.task = Some(ExitChildren(unit.task[1])),
                            !.prev = None, !.call = "exit"]
    /\ unit_frame

NextUnit ==
    \/ UnitPoll
    \/ UnitCancel
    \/ UnitChildExit

SpecUnit == InitUnit /\ [][NextUnit]_vars

\* SpecProc: the dispatcher given ActionTasks, alone and as children of a
\* Serial and a Parallel; every ActionTask is handed over Waiting.
ProcTasks ==
    {Waiting(o) : o \in Outcomes}
    \cup {serial(<<Waiting("success"), Waiting("failure")>>),
          parallel(<<Waiting("success"), Waiting("success_bad_utf8")>>)}

NextProc ==
    \/ \E id \in Ids, task \in ProcTasks : SendTask(id, task)
    \/ \E id \in Ids : CancelAllTasks(id)
    \/ ReceiveResult
    \/ WorkerCheck
    \/ WorkerOperation
    \/ WorkerPoll
    \/ WorkerSleep

SpecProc == Init /\ [][NextProc]_vars

\* SpecStop: the dispatcher with Worker::stop. The worker thread is scheduled
\* again and again (its loop only sleeps 20 ms), and join() returns once the
\* thread has terminated.
StopTasks == {Leaf(MaxDelay, Ok(<<"a">>))}

NextStop ==
    \/ \E id \in Ids, task \in StopTasks : SendTask(id, task)
    \/ \E id \in Ids : CancelAllTasks(id)
    \/ ReceiveResult
    \/ Stop
    \/ StopJoin
    \/ WorkerCheck
    \/ WorkerOperation
    \/ WorkerPoll
    \/ WorkerSleep

SpecStop ==
    /\ Init
    /\ [][NextStop]_vars
    /\ WF_vars(WorkerNext)
    /\ WF_vars(StopJoin)

\* SpecLive: the dispatcher with a worker thread that is scheduled again and
\* again and a caller that keeps draining; the tasks submitted are Ready after
\* finitely many polls.
LiveTasks == {Leaf(MaxDelay, Ok(<<"a">>)), Waiting("success")}

NextLive ==
    \/ \E id \in Ids, task \in LiveTasks : SendTask(id, task)
    \/ \E id \in Ids : CancelAllTasks(id)
    \/ ReceiveResult
    \/ WorkerCheck
    \/ WorkerOperation
    \/ WorkerPoll
    \/ WorkerSleep

SpecLive ==
    /\ Init
    /\ [][NextLive]_vars
    /\ WF_vars(WorkerNext)
    /\ WF_vars(ReceiveResult)

\* SpecBatch: the caller has enqueued a batch of operations before the worker
\* loop starts its first iteration, and from then on only drains.
OpKinds == [op : {"Add", "Remove"}, id : Ids]
Batches == UNION {[1..n -> OpKinds] : n \in 0..MaxOps}
Numbered(b) ==
    [k \in 1..Len(b) |->
        IF b[k].op = "Add"
        THEN Add(b[k].id, Cardinality({j \in 1..k : b[j].op = "Add"}),
                 Leaf(MaxDelay, Ok(<<"a">>)))
        ELSE Remove(b[k].id)]

InitBatch ==
    /\ pending_tasks = <<>>
    /\ task_count = 0
    /\ \E b \in Batches :
          /\ operation_channel = Numbered(b)
          /\ sent = [k \in 1..Len(b) |-> Stripped(Numbered(b)[k])]
    /\ result_channel = <<>>
    /\ stop_channel = "empty"
    /\ worker = [pc |-> "check", i |-> 0]
    /\ caller = [pc |-> "idle", id |-> "", task |-> None, ret |-> None]
    /\ results = [a \in Ids |-> None]
    /\ applied = <<>>
    /\ pushed = <<>>
    /\ drained = <<>>
    /\ polled = NoPoll
    /\ cancelled = {}
    /\ unit = NoUnit
    /\ fold = NoFold

NextBatch ==
    \/ ReceiveResult
    \/ WorkerCheck
    \/ WorkerOperation
    \/ WorkerPoll
    \/ WorkerSleep

SpecBatch == InitBatch /\ [][NextBatch]_vars

\* SpecFold: results are folded with action_aggregator the way
\* ParallelTasks::poll and SerialTasks::poll fold their cached results: the
\* first is taken as the seed, each further one is aggregated into it.
Texts == {<<>>, <<"a">>, <<"b">>}
FoldOutputs == {Ok(x) : x \in Texts} \cup {Err(x) : x \in Texts}

InitFold ==
    /\ pending_tasks = <<>>
    /\ task_count = 0
    /\ operation_channel = <<>>
    /\ result_channel = <<>>
    /\ stop_channel = "empty"
    /\ worker = [pc |-> "check", i |-> 0]
    /\ caller = [pc |-> "idle", id |-> "", task |-> None, ret |-> None]
    /\ results = [a \in Ids |-> None]
    /\ sent = <<>>
    /\ applied = <<>>
    /\ pushed = <<>>
    /\ drained = <<>>
    /\ polled = NoPoll
    /\ cancelled = {}
    /\ unit = NoUnit
    /\ \E n \in 1..MaxResults : \E inputs \in [1..n -> FoldOutputs] :
          fold = [NoFold EXCEPT !.inputs = inputs]

fold_frame ==
    UNCHANGED <<pending_tasks, task_count, operation_channel, result_channel,
                stop_channel, worker, caller, results, sent, applied, pushed,
                drained, polled, cancelled, unit>>

\* let mut aggregated = iter.next().unwrap()
FoldFirst ==
    /\ fold.aggregated = None
    /\ fold.inputs # <<>>
    /\ fold' = [fold EXCEPT !.aggregated = Some(fold.inputs[1]), !.used = 1]
    /\ fold_frame

\* for result in iter { (self.aggregator)(&mut aggregated, &result) }
FoldAggregate ==
    /\ fold.aggregated # None
    /\ fold.used < Len(fold.inputs)
    /\ fold' = [fold EXCEPT
                  !.aggregated = Some(action_aggregator(fold.aggregated[1],
                                                        fold.inputs[fold.used + 1])),
                  !.used = fold.used + 1]
    /\ fold_frame

NextFold ==
    \/ FoldFirst
    \/ FoldAggregate

SpecFold == InitFold /\ [][NextFold]_vars

\* SpecEmpty: the dispatcher given composites built from an empty child list,
\* and the caller's calls after the worker thread has died.
EmptyTasks ==
    {parallel(<<>>), serial(<<>>), Leaf(0, Ok(<<"a">>)),
     serial(<<Leaf(MaxDelay, Ok(<<"a">>)), parallel(<<>>)>>)}

\* Worker::send_task and Worker::cancel_all_tasks once the worker thread has
\* died: the operation receiver is gone, send(..) is an Err and unwrap()
\* panics.
SendDisconnected ==
    /\ caller.pc = "idle"
    /\ worker.pc = "panicked"
    /\ caller' = [caller EXCEPT !.pc = "panicked"]
    /\ UNCHANGED <<worker_vars, app_vars, operation_channel, result_channel,
                   stop_channel, sent, drained>>
    /\ UNCHANGED <<unit, fold>>

\* Worker::receive_result once the worker thread has died: the pairs still
\* buffered are received, then try_recv is Err(Disconnected) and the call
\* panics.
ReceiveResultDisconnected ==
    /\ caller.pc = "idle"
    /\ worker.pc = "panicked"
    /\ result_channel' = TryRecvResult.rest
    /\ drained' = drained \o TryRecvResult.ret
    /\ caller' = IF TryRecvResult.ret = None
                 THEN [caller EXCEPT !.pc = "panicked"]
                 ELSE caller
    /\ UNCHANGED <<worker_vars, app_vars, operation_channel, stop_channel, sent>>
    /\ UNCHANGED <<unit, fold>>

NextEmpty ==
    \/ \E id \in Ids, task \in EmptyTasks : SendTask(id, task)
    \/ \E id \in Ids : CancelAllTasks(id)
    \/ ReceiveResult
    \/ SendDisconnected
    \/ ReceiveResultDisconnected
    \/ WorkerCheck
    \/ WorkerOperation
    \/ WorkerPoll
    \/ WorkerSleep

SpecEmpty == Init /\ [][NextEmpty]_vars

\* ================================================================ claims
\* ---------------------------------------------------------------------- C1
\* C1: at the dispatcher level the task table holds at most one task per
\* identity in every reachable state, also after two send_task calls under one
\* identity with no cancel between them (the Add is said to cancel and remove
\* the task already live under the identity).
AtMostOneTaskPerIdentity ==
    \A id \in Ids :
        Cardinality({i \in DOMAIN pending_tasks : pending_tasks[i].id = id}) <= 1

\* ---------------------------------------------------------------------- C2
\* The newest task submitted under id so far.
LatestTid(id) ==
    LET adds == {k \in DOMAIN sent : sent[k].op = "Add" /\ sent[k].id = id}
    IN  IF adds = {} THEN 0
        ELSE sent[CHOOSE k \in adds : \A j \in adds : j <= k].tid

\* C2: through the facade, every pair the drain returns comes from the task
\* most recently submitted under its identity: once a newer task has been
\* submitted under id, no pair of an earlier task under id is returned.
OnlyLatestResultObserved ==
    [][\A k \in (Len(drained) + 1)..Len(drained') :
          drained'[k].tid = LatestTid(drained'[k].id)]_vars

\* ---------------------------------------------------------------------- C3
\* C3: when every task is submitted through run_action, the task table never
\* holds two live tasks for the same Action.
AtMostOneTaskPerAction ==
    \A i, j \in DOMAIN pending_tasks :
        pending_tasks[i].id = pending_tasks[j].id => i = j

\* The second task run under an Action is in the table, and the first one was
\* still live when the second run_action's cancel was applied.
SupersededWhileLive ==
    \E i \in DOMAIN pending_tasks :
        /\ pending_tasks[i].tid = 2
        /\ \E c \in cancelled : c.tid = 1 /\ c.id = pending_tasks[i].id

\* ---------------------------------------------------------------------- C4
\* A cancel of p's identity was enqueued after the submit of p's task.
CancelEnqueuedAfterSubmit(p) ==
    \E j, k \in DOMAIN sent :
        /\ j < k
        /\ sent[j] = [op |-> "Add", id |-> p.id, tid |-> p.tid]
        /\ sent[k] = [op |-> "Remove", id |-> p.id, tid |-> 0]

\* C4: once cancel(id) is enqueued, the worker pushes no pair for a task that
\* was submitted under id before that cancel.
NoResultAfterCancelEnqueued ==
    [][\A k \in (Len(pushed) + 1)..Len(pushed') :
          ~CancelEnqueuedAfterSubmit(pushed'[k])]_vars

\* ---------------------------------------------------------------------- C5
\* C5: every submitted task yields at most one pair, pushed in the step that
\* removes the task from the table and tagged with the identity it was
\* submitted under; the drain returns every pushed pair once, in order,
\* losing and duplicating none.
ResultsDeliveredOnce ==
    /\ pushed = drained \o result_channel
    /\ \A j, k \in DOMAIN pushed : pushed[j].tid = pushed[k].tid => j = k
    /\ \A k \in DOMAIN pushed :
          /\ \E j \in DOMAIN sent :
                sent[j] = [op |-> "Add", id |-> pushed[k].id, tid |-> pushed[k].tid]
          /\ \A i \in DOMAIN pending_tasks : pending_tasks[i].tid # pushed[k].tid

\* Two tasks under one identity have both produced their pair; the first
\* pair has been drained and the second is still queued.
TwoResultsOneDrained ==
    /\ Len(pushed) = 2
    /\ Len(drained) = 1
    /\ pushed[1].id = pushed[2].id
    /\ result_channel = <<pushed[2]>>

\* ---------------------------------------------------------------------- C6
\* C6: the worker applies the operations in the order they were enqueued,
\* none lost or duplicated; a cancel(id) removes exactly the tasks under id
\* installed before it: every cancelled task was installed before the cancel
\* that removed it, and no task stays in the table past a later cancel of its
\* identity.
OperationsAppliedInOrder ==
    /\ applied \o [k \in DOMAIN operation_channel |-> Stripped(operation_channel[k])]
         = sent
    /\ \A c \in cancelled :
          \E j, k \in DOMAIN applied :
              /\ j < k
              /\ applied[j] = [op |-> "Add", id |-> c.id, tid |-> c.tid]
              /\ applied[k] = [op |-> "Remove", id |-> c.id, tid |-> 0]
    /\ \A i \in DOMAIN pending_tasks :
          \E j \in DOMAIN applied :
              /\ applied[j] = [op |-> "Add", id |-> pending_tasks[i].id,
                               tid |-> pending_tasks[i].tid]
              /\ \A k \in DOMAIN applied :
                    k > j => applied[k] # [op |-> "Remove", id |-> pending_tasks[i].id,
                                           tid |-> 0]

\* cancel, submit, cancel under one identity, all applied: the first cancel
\* left the task alone and the second one removed it.
CancelSubmitCancelApplied ==
    /\ Len(applied) = 3
    /\ applied[1].op = "Remove" /\ applied[2].op = "Add" /\ applied[3].op = "Remove"
    /\ applied[1].id = applied[2].id /\ applied[2].id = applied[3].id
    /\ \E c \in cancelled : c.tid = applied[2].tid

\* ---------------------------------------------------------------------- C7
\* C7: a poll() of a Parallel returns Ready if and only if, at the end of that
\* call, every child has reported Ready; in particular it returns Ready in
\* the call in which the last outstanding child reports Ready.
ParallelReadyIffAllChildrenReady ==
    (polled.before # None /\ polled.before[1].kind = "parallel") =>
        (polled.ret # None
           <=> \A i \in DOMAIN polled.after[1].tasks : polled.after[1].tasks[i].done)

\* ---------------------------------------------------------------------- C8
\* The left fold r1, agg(r1, r2), agg(agg(r1, r2), r3), ... of rs[1..n].
RECURSIVE LeftFold(_, _)
LeftFold(rs, n) ==
    IF n = 1 THEN rs[1] ELSE action_aggregator(LeftFold(rs, n - 1), rs[n])

\* The output a task owes: a leaf its result, a composite the left fold of
\* what its children owe, in child order.
RECURSIVE Expected(_)
Expected(t) ==
    IF t.kind = "leaf" THEN t.res
    ELSE LeftFold([i \in DOMAIN t.tasks |-> Expected(t.tasks[i])], Len(t.tasks))

\* C8: a Parallel or Serial of n >= 1 children that returns Ready returns the
\* left fold of its children's results in child order, seeded with child 0's
\* result, whatever the rounds in which the children became Ready.
CompositeOutputIsLeftFold ==
    (polled.ret # None /\ polled.before[1].kind \in {"parallel", "serial"}) =>
        polled.ret[1] = Expected(polled.before[1])

\* Parallel of leaves Ok("a") and Ok("b") returns Ok("a\nb"), the second
\* child having been Ready a round before the first.
ParallelABReady ==
    /\ polled.ret = Some(Ok(<<"a", "\n", "b">>))
    /\ polled.before[1].kind = "parallel"
    /\ Len(polled.after[1].tasks) = 2
    /\ polled.after[1].tasks[1].polls > polled.after[1].tasks[2].polls

\* ---------------------------------------------------------------------- C9
\* In a Serial, a child that has been polled has only finished children
\* before it.
SerialChildrenInOrder(t) ==
    \A j \in DOMAIN t.tasks :
        t.tasks[j].polls > 0 => \A k \in 1..(j - 1) : t.tasks[k].done

RECURSIVE EverySerialInOrder(_)
EverySerialInOrder(t) ==
    /\ t.kind = "serial" => SerialChildrenInOrder(t)
    /\ \A i \in DOMAIN t.tasks : EverySerialInOrder(t.tasks[i])

\* C9: a Serial never polls child i+1 before child i has produced Ready, and
\* a poll() of a Serial polls only the child whose index is the number of
\* results logged so far.
SerialPollsInOrder ==
    /\ \A i \in DOMAIN pending_tasks : EverySerialInOrder(pending_tasks[i].task)
    /\ polled.after # None => EverySerialInOrder(polled.after[1])
    /\ (polled.before # None /\ polled.before[1].kind = "serial") =>
          \A j \in DOMAIN polled.before[1].tasks :
              polled.after[1].tasks[j].polls # polled.before[1].tasks[j].polls
                  => j = Len(polled.before[1].cached_results) + 1

\* The third child of a Serial is polled after the first child answered
\* Pending at least once and the first two children finished.
SerialThirdChildPolled ==
    /\ polled.before # None
    /\ polled.before[1].kind = "serial"
    /\ Len(polled.after[1].tasks) = 3
    /\ polled.after[1].tasks[3].polls > 0
    /\ polled.after[1].tasks[1].polls > 1

\* --------------------------------------------------------------------- C10
RECURSIVE AnyStale(_)
AnyStale(t) == t.stale \/ \E i \in DOMAIN t.tasks : AnyStale(t.tasks[i])

\* C10: no task, table entry or child of a composite, is polled after it has
\* returned Ready or after cancel() was called on it: a Ready entry and a
\* cancelled entry have left the table.
NoPollAfterReadyOrCancel ==
    /\ polled.after # None => ~AnyStale(polled.after[1])
    /\ \A i \in DOMAIN pending_tasks :
          /\ ~AnyStale(pending_tasks[i].task)
          /\ ~pending_tasks[i].task.done
          /\ pending_tasks[i].task.cancels = 0
          /\ \A c \in cancelled : c.tid # pending_tasks[i].tid

\* A Parallel that was polled twice, its first child once only (Ready on the
\* first poll), has been cancelled and dropped, and the worker then polls
\* another entry, which returns Ready and leaves the table.
CancelledParallelThenReady ==
    /\ \E c \in cancelled :
          /\ c.task.kind = "parallel"
          /\ c.task.polls = 2
          /\ c.task.tasks[1].done
          /\ c.task.tasks[1].polls = 1
          /\ polled.tid # c.tid
    /\ polled.ret # None

\* --------------------------------------------------------------------- C11
\* A task without its history fields.
RECURSIVE Core(_)
Core(t) ==
    [kind |-> t.kind, left |-> t.left, res |-> t.res, state |-> t.state,
     child |-> t.child, outcome |-> t.outcome,
     cached_results |-> t.cached_results,
     tasks |-> [i \in DOMAIN t.tasks |-> Core(t.tasks[i])]]

\* C11: cancel() can be called on an ActionTask, a Parallel and a Serial in
\* any state, before the first poll() included, and again directly after a
\* cancel(): no call faults, and the second call leaves the task as the first
\* left it.
CancelIsIdempotent ==
    unit.call = "cancel" =>
        /\ ~unit.panic
        /\ unit.prev[1].cancels > 0 => Core(unit.task[1]) = Core(unit.prev[1])

\* A Parallel holding a Running ActionTask whose process was alive has been
\* cancelled twice, never polled: the process was killed by the first call.
ParallelCancelledTwice ==
    /\ unit.call = "cancel"
    /\ unit.task[1].kind = "parallel"
    /\ unit.task[1].cancels = 2
    /\ unit.task[1].polls = 0
    /\ \E i \in DOMAIN unit.task[1].tasks :
          /\ unit.task[1].tasks[i].kind = "action"
          /\ unit.task[1].tasks[i].child = "killed"
          /\ unit.task[1].tasks[i].cancels = 2

\* --------------------------------------------------------------------- C12
\* The entries of a table, as a set.
Entries(tasks) == {tasks[k] : k \in 1..Len(tasks)}

\* The step applies a TaskOperation::Remove.
RemoveApplied ==
    /\ Len(applied') = Len(applied) + 1
    /\ applied'[Len(applied')].op = "Remove"

\* C12: applying cancel(id) removes and cancels every task stored under id,
\* and every task stored under another identity stays in the table as it was,
\* cancel() not called on it; with no task under id the table and the task
\* count are unchanged.
CancelAffectsOnlyItsIdentity ==
    [][RemoveApplied =>
        LET id == applied'[Len(applied')].id
            before == Entries(pending_tasks)
        IN  /\ Entries(pending_tasks') = {e \in before : e.id # id}
            /\ Len(pending_tasks') = Cardinality({e \in before : e.id # id})
            /\ cancelled' = cancelled \cup
                   {[e EXCEPT !.task = CancelTask(e.task)] :
                        e \in {x \in before : x.id = id}}
            /\ \A e \in Entries(pending_tasks') : e.task.cancels = 0
            /\ (\A e \in before : e.id # id) =>
                   /\ pending_tasks' = pending_tasks
                   /\ task_count' = task_count]_vars

\* The one Remove sent has just been applied: it cancelled a task, and a task
\* under another identity is still in the table.
RemoveLeftOtherIdentity ==
    /\ worker.pc = "poll"
    /\ worker.i = Len(pending_tasks)
    /\ applied # <<>>
    /\ applied[Len(applied)].op = "Remove"
    /\ Cardinality({k \in 1..Len(applied) : applied[k].op = "Remove"}) = 1
    /\ \E c \in cancelled : c.id = applied[Len(applied)].id
    /\ \E e \in Entries(pending_tasks) : e.id # applied[Len(applied)].id

\* --------------------------------------------------------------------- C13
\* C13: receive_result never blocks: the caller can always take the step; on
\* an empty result channel it returns None and no state changes, otherwise it
\* returns the oldest queued pair and removes that pair only.
ReceiveResultNeverBlocks ==
    /\ [](caller.pc = "idle" /\ worker.pc \notin {"exited", "panicked"}
             => ENABLED ReceiveResult)
    /\ [][ReceiveResult =>
            IF result_channel = <<>>
            THEN UNCHANGED vars
            ELSE /\ drained' = Append(drained, Head(result_channel))
                 /\ result_channel' = Tail(result_channel)
                 /\ UNCHANGED <<pending_tasks, task_count, operation_channel,
                                stop_channel, worker, caller, results, sent,
                                applied, pushed, polled, cancelled, unit, fold>>]_vars

\* A pair has been drained before, and now the table holds a task just polled
\* Pending while the result channel is empty: a drain here returns None.
NothingYetWhileTaskPending ==
    /\ caller.pc = "idle"
    /\ drained # <<>>
    /\ result_channel = <<>>
    /\ pending_tasks # <<>>
    /\ polled.id # ""
    /\ polled.ret = None

\* --------------------------------------------------------------------- C14
\* C14: the first poll() of a Waiting ActionTask whose command spawns leaves
\* the task Running and returns Pending, without waiting for the process to
\* exit.
FirstPollMovesToRunning ==
    (/\ unit.call = "poll"
     /\ unit.prev[1].kind = "action"
     /\ unit.prev[1].state = "Waiting"
     /\ unit.prev[1].outcome # "spawn_error")
        => /\ ~unit.panic
           /\ unit.task[1].state = "Running"
           /\ unit.ret = None

\* --------------------------------------------------------------------- C15
\* A task and every task below it.
RECURSIVE Nodes(_)
Nodes(t) == {t} \cup UNION {Nodes(t.tasks[i]) : i \in DOMAIN t.tasks}

\* Every task the dispatcher has been handed, as it is now or as it was when
\* the worker let go of it.
HandedTasks ==
    {operation_channel[k].task[1] :
        k \in {j \in 1..Len(operation_channel) : operation_channel[j].op = "Add"}}
    \cup {e.task : e \in Entries(pending_tasks)}
    \cup {c.task : c \in cancelled}
    \cup {polled.after[k] : k \in DOMAIN polled.after}

ActionNodes == {n \in UNION {Nodes(t) : t \in HandedTasks} : n.kind = "action"}

\* C15: every ActionTask handed to the dispatcher, alone or inside a Parallel
\* or Serial, has called Command::spawn once if it has been polled, and never
\* twice.
SpawnsAtMostOnce ==
    \A n \in ActionNodes :
        /\ n.spawned <= 1
        /\ n.polls > 0 => n.spawned = 1

\* A Serial of two ActionTasks has just returned Ready: each child has
\* spawned its process, once.
SerialSpawnedBothOnce ==
    /\ polled.ret # None
    /\ polled.after # None
    /\ polled.after[1].kind = "serial"
    /\ Len(polled.after[1].tasks) = 2
    /\ \A i \in 1..2 : /\ polled.after[1].tasks[i].kind = "action"
                       /\ polled.after[1].tasks[i].spawned = 1

\* --------------------------------------------------------------------- C16
\* C16: an ActionTask that cancel() reaches before any poll() never spawns a
\* process: it is left Waiting and un-spawned, no task in the table has been
\* cancelled, and no task is polled after cancel().
CancelBeforePollNeverSpawns ==
    /\ \A n \in ActionNodes :
          n.cancels > 0 =>
              /\ ~n.stale
              /\ n.polls = 0 => (n.spawned = 0 /\ n.state = "Waiting")
    /\ \A e \in Entries(pending_tasks) : \A n \in Nodes(e.task) : n.cancels = 0
    /\ \A c \in cancelled : \A e \in Entries(pending_tasks) : e.tid # c.tid

\* A Serial was cancelled after its first child had run: its second child, an
\* ActionTask never polled, received cancel() and has spawned nothing.
UnpolledChildCancelled ==
    \E c \in cancelled :
        /\ c.task.kind = "serial"
        /\ c.task.polls > 0
        /\ \E n \in Nodes(c.task) :
              /\ n.kind = "action"
              /\ n.polls = 0
              /\ n.cancels = 1
              /\ n.spawned = 0

\* --------------------------------------------------------------------- C17
\* C17: every failure of an ActionTask is a value: no poll() panics, whatever
\* bytes the process wrote, and the worker thread goes on.
ProcessFailureIsAValue == worker.pc # "panicked"

\* --------------------------------------------------------------------- C18
\* C18: once stop() has sent the stop request the worker exits at its next
\* loop-condition check; stop() returns only after the worker thread has
\* terminated, and from then on nothing is polled, cancelled, pushed or
\* changed in the table; and stop() does return.
ShutdownIsComplete ==
    /\ [](caller.pc = "stopped" => worker.pc = "exited")
    /\ [][(worker.pc = "check" /\ stop_channel = "sending" /\ worker' # worker)
             => worker'.pc = "exited"]_vars
    /\ [][caller.pc = "stopped" => UNCHANGED vars]_vars
    /\ (caller.pc = "stopping" ~> caller.pc = "stopped")

\* stop() has returned after the worker had pushed a result and while an
\* operation sent was still waiting to be applied.
StoppedAfterWork ==
    /\ caller.pc = "stopped"
    /\ worker.pc = "exited"
    /\ pushed # <<>>
    /\ Len(applied) < Len(sent)

\* --------------------------------------------------------------------- C19
\* C19: once the worker has applied the operation sent by cancel_all_tasks,
\* cancel() has been called on every task that was live, whatever its
\* identity, and the task table is empty with a task count of 0.
CancelAllEmptiesTable ==
    [][RemoveApplied =>
        /\ pending_tasks' = <<>>
        /\ task_count' = 0
        /\ \A e \in Entries(pending_tasks) :
              [e EXCEPT !.task = CancelTask(e.task)] \in cancelled']_vars

\* --------------------------------------------------------------------- C20
\* The output of the last pair for action a that a drain has returned.
LastDrained(a) ==
    LET ks == {k \in 1..Len(drained) : drained[k].id = a}
    IN  IF ks = {} THEN None
        ELSE Some(drained[CHOOSE k \in ks : \A j \in ks : j <= k].result)

\* C20: the cached result of every action is the output of the last pair for
\* it that poll_action_result returned; poll_action_result takes one pair at
\* most, the oldest, and stores it; run_action never blocks, leaves the cache
\* as it is and returns the cached result of its action, or an empty success
\* when none has been drained.
CacheHoldsLastDrained ==
    /\ [](\A a \in Ids : results[a] = LastDrained(a))
    /\ [](caller.pc = "run_action" => ENABLED RunActionSend)
    /\ [][PollActionResult =>
            IF result_channel = <<>> THEN drained' = drained
            ELSE /\ drained' = Append(drained, Head(result_channel))
                 /\ result_channel' = Tail(result_channel)
                 /\ results'[Head(result_channel).id] = Some(Head(result_channel).result)]_vars
    /\ [][(caller.pc = "run_action" \/ caller'.pc = "run_action") =>
            results' = results]_vars
    /\ [][RunActionSend =>
            caller'.ret =
                Some([action |-> caller.id,
                      result |-> IF LastDrained(caller.id) = None THEN Ok(<<>>)
                                 ELSE LastDrained(caller.id)[1]])]_vars

\* run_action has returned the result cached for its action, drained from an
\* earlier run of the same action.
RunActionReturnedCached ==
    /\ caller.pc = "idle"
    /\ caller.ret # None
    /\ LastDrained(caller.ret[1].action) # None
    /\ caller.ret[1].result = LastDrained(caller.ret[1].action)[1]
    /\ caller.ret[1].result # Ok(<<>>)

\* --------------------------------------------------------------------- C21
\* The task submitted as number tid.
AddSent(tid) == \E k \in 1..Len(sent) : sent[k].op = "Add" /\ sent[k].tid = tid
WasCancelled(tid) == \E c \in cancelled : c.tid = tid
WasPushed(tid) == \E k \in 1..Len(pushed) : pushed[k].tid = tid
WasDrained(tid) == \E k \in 1..Len(drained) : drained[k].tid = tid

\* Task tid has been submitted and not cancelled, and its pair has not been
\* both pushed and drained.
Undelivered(tid) ==
    /\ AddSent(tid)
    /\ ~WasCancelled(tid)
    /\ ~(WasPushed(tid) /\ WasDrained(tid))

\* C21: with the worker loop scheduled fairly and a caller that keeps
\* draining, every task submitted and not cancelled has its pair pushed to
\* the result channel and then returned by receive_result; the pair of an
\* ActionTask whose command succeeds is (id, Ok(stdout)).
SubmittedTaskIsDelivered ==
    /\ (\E tid \in 1..MaxOps : Undelivered(tid))
          ~> (\A tid \in 1..MaxOps : ~Undelivered(tid))
    /\ []((/\ polled.before # None
           /\ polled.before[1].kind = "action"
           /\ polled.before[1].outcome = "success")
              => /\ pushed # <<>>
                 /\ pushed[Len(pushed)] =
                       [id |-> polled.id, tid |-> polled.tid, result |-> Ok(Stdout)])

\* The pair of an ActionTask whose command succeeded has been drained, and
\* nothing was ever cancelled.
SuccessOutputDrained ==
    /\ cancelled = {}
    /\ \E k \in 1..Len(drained) :
          /\ drained[k].result = Ok(Stdout)
          /\ drained[k].id = "Status"

\* --------------------------------------------------------------------- C22
\* C22: between two iterations of the worker loop the shared task count is
\* the number of entries in the task table; the count changes in steps of the
\* worker thread only, and send_task, cancel_all_tasks and receive_result
\* leave it as it is.
TaskCountIsSnapshot ==
    /\ [](worker.pc = "check" => task_count = Len(pending_tasks))
    /\ [][task_count' # task_count => worker' # worker]_vars
    /\ [][(sent' # sent \/ drained' # drained) => task_count' = task_count]_vars

\* The worker sleeps with two tasks in the table and a count of 2, after the
\* caller has submitted three tasks and drained the result of one.
TwoLiveTasksCounted ==
    /\ worker.pc = "check"
    /\ Len(pending_tasks) = 2
    /\ task_count = 2
    /\ drained # <<>>

\* --------------------------------------------------------------------- C23
\* C23: every operation queued when an iteration of the worker loop starts
\* is applied before a task is polled in that iteration. In SpecBatch every
\* operation is queued before the first iteration starts, so no task is
\* polled while the operation queue holds an operation.
QueueDrainedBeforePolling == polled # NoPoll => operation_channel = <<>>

\* --------------------------------------------------------------------- C24
\* The tasks the polling pass in progress has still to poll.
ToPoll ==
    IF worker.pc = "poll"
    THEN {pending_tasks[k].tid : k \in 1..Min(worker.i, Len(pending_tasks))}
    ELSE {}

\* C24: a polling pass starts with every task of the table to poll; each
\* turn polls one of them, once, and takes it and no other off the tasks to
\* poll; an entry that returned Ready leaves the table and every other entry
\* stays; the pass ends when no task is left to poll.
EveryLiveTaskPolledOnce ==
    /\ [](worker.pc = "poll" => worker.i <= Len(pending_tasks))
    /\ [][(worker.pc = "operation" /\ worker'.pc = "poll")
             => ToPoll' = {e.tid : e \in Entries(pending_tasks')}]_vars
    /\ [][(worker.pc = "poll" /\ worker.i >= 1 /\ worker' # worker) =>
            LET e == pending_tasks[worker.i]
                rest == Entries(pending_tasks) \ {e}
            IN  /\ polled'.tid = e.tid
                /\ polled'.before = Some(e.task)
                /\ polled'.after[1].polls = e.task.polls + 1
                /\ ToPoll' = ToPoll \ {e.tid}
                /\ Entries(pending_tasks') =
                      IF polled'.ret # None THEN rest
                      ELSE rest \cup {[e EXCEPT !.task = polled'.after[1]]}
                /\ Len(pending_tasks') = Cardinality(Entries(pending_tasks'))]_vars
    /\ [][(worker.pc = "poll" /\ worker'.pc = "check") => ToPoll = {}]_vars

\* In a pass over three tasks the second has returned Ready and been removed,
\* the third, polled before it, has taken its place, and the first is still
\* to poll.
ReadyRemovedMidPass ==
    /\ worker.pc = "poll"
    /\ polled.ret # None
    /\ worker.i = 1
    /\ Len(pending_tasks) = 2
    /\ pending_tasks[2].tid > polled.tid
    /\ pending_tasks[2].task.polls = 1

\* --------------------------------------------------------------------- C25
\* The Parallel and Serial composites among the tasks handed to the
\* dispatcher and the tasks below them.
CompositeNodes ==
    {n \in UNION {Nodes(t) : t \in HandedTasks} : n.kind \in {"parallel", "serial"}}

\* C25: a composite forwards each cancel() it receives to its children that
\* have not produced a result, once, and to no child that has: a child has
\* received as many cancel() calls as its composite if it has not returned
\* Ready, and none if it has.
CancelForwardedToUnfinishedChildren ==
    \A n \in CompositeNodes :
        \A i \in DOMAIN n.tasks :
            n.tasks[i].cancels = IF n.tasks[i].done THEN 0 ELSE n.cancels

\* A Serial of three was cancelled after its first child had returned Ready:
\* the first child received no cancel(), the second and the third, which was
\* never started, received one each.
SerialCancelledAfterFirstChild ==
    \E c \in cancelled :
        /\ c.task.kind = "serial"
        /\ c.task.cancels = 1
        /\ Len(c.task.tasks) = 3
        /\ c.task.tasks[1].done
        /\ c.task.tasks[1].cancels = 0
        /\ c.task.tasks[2].cancels = 1
        /\ c.task.tasks[3].cancels = 1
        /\ c.task.tasks[3].polls = 0

\* --------------------------------------------------------------------- C26
\* The texts of the first n results joined by newlines, in order.
RECURSIVE Joined(_, _)
Joined(rs, n) ==
    IF n = 1 THEN rs[1].text
    ELSE Joined(rs, n - 1) \o <<"\n">> \o rs[n].text

\* C26: action_aggregator leaves in first the text first + "\n" + second,
\* tagged success only when both are success; a fold over n results is
\* success iff all n are success, its text is their texts joined by newlines
\* in order, and the results folded are left as they were.
FoldIsJoinAndAllOk ==
    /\ [](fold.aggregated # None =>
            /\ fold.aggregated[1].ok = (\A k \in 1..fold.used : fold.inputs[k].ok)
            /\ fold.aggregated[1].text = Joined(fold.inputs, fold.used))
    /\ [][fold.aggregated # None /\ fold'.used = fold.used + 1 =>
            LET first == fold.aggregated[1]
                second == fold.inputs[fold'.used]
            IN  /\ fold'.aggregated[1].text = first.text \o <<"\n">> \o second.text
                /\ fold'.aggregated[1].ok = (first.ok /\ second.ok)
                /\ fold'.inputs = fold.inputs]_vars

\* Three results have been folded, the first a failure and the others
\* successes: the fold is a failure.
FailureFirstFolded ==
    /\ fold.used = 3
    /\ ~fold.inputs[1].ok
    /\ fold.inputs[2].ok
    /\ fold.inputs[3].ok
    /\ fold.aggregated # None
    /\ ~fold.aggregated[1].ok
    /\ fold.aggregated[1].text = <<"a", "\n", "b", "\n">>

\* --------------------------------------------------------------------- C27
\* C27: the poll() that spawns a process returns only after the process has
\* exited, so between two steps of the worker no ActionTask is Running and
\* no process is alive, and no cancel() has had a process to kill.
NoProcessOutlivesItsPoll ==
    \A n \in ActionNodes :
        /\ n.state = "Waiting"
        /\ n.child = "none"

\* A Serial of two ActionTasks was cancelled after its first child had
\* spawned its process and returned: both children are Waiting, and the
\* cancel() found no process to kill.
CancelFoundNoProcess ==
    \E c \in cancelled :
        /\ c.task.kind = "serial"
        /\ c.task.cancels = 1
        /\ Len(c.task.tasks) = 2
        /\ \A i \in 1..2 : /\ c.task.tasks[i].kind = "action"
                           /\ c.task.tasks[i].state = "Waiting"
                           /\ c.task.tasks[i].child = "none"
        /\ c.task.tasks[1].spawned = 1
        /\ c.task.tasks[1].done
        /\ c.task.tasks[2].cancels = 1

\* --------------------------------------------------------------------- C28
\* C28: when the worker observes the stop request it leaves the loop with
\* the queued operations unapplied and the tasks of the table neither
\* cancelled nor reported, and nothing is applied, cancelled or pushed
\* afterwards.
StopDropsQueuedWork ==
    [][(worker'.pc = "exited") =>
          /\ applied' = applied
          /\ cancelled' = cancelled
          /\ pushed' = pushed
          /\ result_channel' = result_channel
          /\ task_count' = task_count]_vars

\* The worker has exited on a stop request with an operation still queued
\* and unapplied, and with a task in the table that was never cancelled and
\* never reported.
StoppedWithLiveTaskAndQueuedOperation ==
    /\ worker.pc = "exited"
    /\ stop_channel = "taken"
    /\ Len(applied) < Len(sent)
    /\ \E k \in 1..Len(applied) :
          /\ applied[k].op = "Add"
          /\ ~WasPushed(applied[k].tid)
          /\ ~WasCancelled(applied[k].tid)

\* --------------------------------------------------------------------- C29
\* The task is a Parallel or Serial built from an empty child list.
EmptyComposite(t) == t.kind \in {"parallel", "serial"} /\ t.tasks = <<>>

\* C29: the first poll() of a Parallel or Serial without children faults: it
\* returns neither Pending nor Ready and the worker thread that polled it
\* has died; a dead worker thread takes no step, no operation is enqueued
\* after its death, and the caller's next send_task or cancel_all_tasks, and
\* its next receive_result on an empty result channel, fault.
EmptyCompositeFaults ==
    /\ []((polled.after # None /\ \E n \in Nodes(polled.after[1]) :
                                     EmptyComposite(n) /\ n.polls > 0)
            => /\ \A n \in Nodes(polled.after[1]) : EmptyComposite(n) => n.polls <= 1
               /\ polled.ret = None
               /\ worker.pc = "panicked"
               /\ ~WasPushed(polled.tid))
    /\ []((polled.before # None /\ EmptyComposite(polled.before[1]))
            => polled.after[1].polls = 1)
    /\ [][worker.pc = "panicked" =>
            /\ UNCHANGED <<worker_vars, sent, operation_channel>>
            /\ caller' # caller => caller'.pc = "panicked"
            /\ result_channel = <<>> => drained' = drained]_vars
    /\ []((worker.pc = "panicked" /\ caller.pc = "idle") =>
            /\ ENABLED SendDisconnected
            /\ ~ENABLED \E id \in Ids, task \in EmptyTasks : SendTask(id, task)
            /\ ~ENABLED \E id \in Ids : CancelAllTasks(id))

\* The worker thread died polling a Parallel without children, and the
\* caller's next call has faulted on the disconnected channel.
CallerFaultedAfterEmptyParallel ==
    /\ worker.pc = "panicked"
    /\ caller.pc = "panicked"
    /\ polled.before # None
    /\ polled.before[1].kind = "parallel"
    /\ polled.before[1].tasks = <<>>

====
